---- MODULE Spec2Model ----
(***************************************************************************)
(* Support agent system (src/main.py): a console host loop that hands each *)
(* user message to a streamed run of the agents framework, starting at the *)
(* triage agent.                                                           *)
(*                                                                         *)
(* The host loop, the shared context, the tools with their is_enabled      *)
(* predicates, the agents' configuration and the output guardrail are      *)
(* translated from main.py.  The run itself (runner.run_streamed, line     *)
(* 169) is the framework's: it is modelled by the contract main.py relies  *)
(* on - an agent is invoked with the enabled tools, a handoff switches the *)
(* current agent, a final output is checked by the output guardrails of    *)
(* the agent that produced it, a triggered tripwire or a model error ends  *)
(* the run with an exception raised out of stream_events().  The language  *)
(* model behind every agent is a nondeterministic choice of its output.    *)
(* The guardrail's judge is a run of its own inside the run, and a run     *)
(* gives up when an agent has used up its turns.                           *)
(*                                                                         *)
(* The run's position is named with the states STARTED .. DONE and its     *)
(* streamed events with the kinds request_started .. request_failed.       *)
(***************************************************************************)
EXTENDS Integers, Sequences, FiniteSets, TLC

\* ---------------------------------------------------------------- bounds
MaxRequests == 2    \* requests the host loop starts in one session
MaxTurns == 2       \* turns one agent may take in one request before the run gives up

\* ------------------------------------------------------- names and inputs
None == "None"

TRIAGE == "Triage Agent"
BILLING == "Billing Agent"
TECHNICAL == "Technical Agent"
GENERAL == "General Agent"
Agents == {TRIAGE, BILLING, TECHNICAL, GENERAL}

\* apology_guardrail_agent, run by the guardrail and never handed off to
GUARD == "Apology Guardrail"

\* an agent name the model may produce that no handoff of the triage agent names
UnknownAgent == "Sales Agent"

\* answers typed at the two start-up prompts and at the message prompt
NameInputs == {"", "Ana"}
PremiumInputs == {"y", "n"}
Messages == {"exit", "QUIT", "my invoice is wrong"}

\* faulty variant: the message is compared as typed
LowerMissing(s) == s

\* str.lower() on the inputs of the model
Lower(s) == IF s = "QUIT" THEN "quit" ELSE s

\* input(...).strip() or "User"
NameOf(s) == IF s = "" THEN "User" ELSE s

\* input(...).lower().startswith("y")
IsPremiumAnswer(s) == Lower(s) = "y"

SupportContext(name, premium) ==
    [name |-> name, is_premium_user |-> premium, issue_type |-> None]

\* ------------------------------------------------------------------ tools
RunTools == {"refund", "restart_service", "general_info"}

\* faulty variant: the refund is offered to every user
refund_always_enabled(c) == TRUE

refund_is_enabled(c) == c.is_premium_user
restart_service_is_enabled(c) == c.issue_type = "technical"
general_info_is_enabled(c) == TRUE

is_enabled(t, c) ==
    CASE t = "refund" -> refund_is_enabled(c)
      [] t = "restart_service" -> restart_service_is_enabled(c)
      [] t = "general_info" -> general_info_is_enabled(c)

\* the tools offered to the model at one invocation
GatedView(c) == {t \in RunTools : is_enabled(t, c)}

\* the guardrail's own run is given no tools (lines 70-74)
GuardrailRunTools == {}

\* the tools offered to the judge's model
JudgeView(c) == {t \in GuardrailRunTools : is_enabled(t, c)}

\* faulty variant: a handler records the kind of issue it served in the context
ToolHandlerSetsIssueType(t, c) ==
    [c EXCEPT !.issue_type = IF t = "restart_service" THEN "technical" ELSE "general"]

\* the handlers read ctx.name and return a message; none assigns a field
ToolHandler(t, c) == c

\* faulty variant: a handler is called for whatever tool the model names
ToolAllowedAny(t, v) == TRUE

\* the framework calls a handler only for a tool it offered
ToolAllowed(t, v) == t \in v

\* ----------------------------------------------------------------- agents
Handoffs(a) == IF a = TRIAGE THEN <<BILLING, TECHNICAL, GENERAL>> ELSE << >>

HandoffTargets(a) == {Handoffs(a)[i] : i \in 1..Len(Handoffs(a))}

\* faulty variant: the triage agent is left without an output guardrail
OutputGuardrailsSpecialistsOnly(a) ==
    IF a \in Agents \ {TRIAGE} THEN <<"no_apology_guardrail">> ELSE << >>

\* faulty variant: every agent, the judge too, carries the output guardrail
OutputGuardrailsEveryAgent(a) == <<"no_apology_guardrail">>

OutputGuardrails(a) == IF a \in Agents THEN <<"no_apology_guardrail">> ELSE << >>

\* faulty variant: the tripwire is the negation of the judge's has_apology
TripwireInverted(has_apology) == ~has_apology

\* no_apology_guardrail: tripwire_triggered is the judge's has_apology
TripwireTriggered(has_apology) == has_apology

\* faulty variant: a tripped guardrail sends the run back to the agent
AfterTripwireRetry == "EXECUTING"

\* what a run does with a final output whose guardrail tripped: it raises
AfterTripwire == "FAILED"

\* ------------------------------------------------------------------ state
VARIABLES
    hostPc,     \* "prompt" (line 157), "running" (lines 169-178), "exited", "crashed"
    ctx,        \* the SupportContext of the session (line 154)
    msg,        \* the message of the current request
    requests,   \* requests started in the session
    state,      \* position of the streamed run
    agent,      \* current agent of the run
    turns,      \* invocations of the current agent's model in the run
    view,       \* tools offered at the latest invocation
    pending,    \* model output the run has not processed yet
    candidate,  \* final output awaiting or past its guardrails
    verdicts,   \* guardrail outputs of the request, in order
    handlerLog, \* tool handlers run in the request, in order
    events,     \* events streamed for the request, in order
    reason,     \* exception type that ended the run, or None
    result,     \* the released final output, or NoCandidate
    nested,     \* depth of the guardrail runs in progress inside the run
    judgeView,  \* tools offered to the judge at its latest invocation
    judgePending \* output of the judge's model the guardrail has not processed

vars == <<hostPc, ctx, msg, requests, state, agent, turns, view, pending,
          candidate, verdicts, handlerLog, events, reason, result,
          nested, judgeView, judgePending>>

NoOutput == [kind |-> "none", targets |-> << >>, tool |-> None, text |-> None]
NoCandidate == [id |-> 0, by |-> None, text |-> None]

Event(k, a) == [kind |-> k, arg |-> a]

Texts == {"plain", "sorry"}

\* sequences of one or two distinct agent names a triage output can name
TargetLists ==
    LET N == HandoffTargets(TRIAGE) \cup {UnknownAgent}
    IN  {<<x>> : x \in N} \cup {<<p[1], p[2]>> : p \in {q \in N \X N : q[1] # q[2]}}

\* what the model behind agent a can return
ModelOutputs(a) ==
    {[kind |-> "final", targets |-> << >>, tool |-> None, text |-> t] : t \in Texts}
    \cup {[kind |-> k, targets |-> << >>, tool |-> None, text |-> None] :
            k \in {"malformed", "error"}}
    \cup {[kind |-> "tool", targets |-> << >>, tool |-> t, text |-> None] :
            t \in RunTools}
    \cup (IF a = TRIAGE
          THEN {[kind |-> "handoff", targets |-> ts, tool |-> None, text |-> None] :
                  ts \in TargetLists}
          ELSE {})

Init ==
    /\ hostPc = "prompt"
    /\ ctx \in {SupportContext(NameOf(n), IsPremiumAnswer(p)) :
                  n \in NameInputs, p \in PremiumInputs}
    /\ msg = None
    /\ requests = 0
    /\ state = "IDLE"
    /\ agent = None
    /\ turns = 0
    /\ view = {}
    /\ pending = NoOutput
    /\ candidate = NoCandidate
    /\ verdicts = << >>
    /\ handlerLog = << >>
    /\ events = << >>
    /\ reason = None
    /\ result = NoCandidate
    /\ nested = 0
    /\ judgeView = {}
    /\ judgePending = NoOutput

\* ---------------------------------------------------------------- host loop
\* faulty variant: the next message is read without waiting for the run's events
AtPromptOrRunning == hostPc \in {"prompt", "running"}

\* line 157 is reached at start-up and whenever the loop of lines 177-178 has ended
AtPrompt == hostPc = "prompt"

\* faulty variant: a run that raised never ends the loop over its events
StreamCompleteOnSuccess(s) == s = "ACCEPTED"

\* lines 177-178: the loop over stream_events() ends when the run has completed or
\* raised
StreamComplete(s) == s \in {"ACCEPTED", "FAILED"}

\* lines 157-160: an exit or quit message ends the loop
ReadExit ==
    /\ AtPrompt
    /\ \E m \in Messages :
         /\ Lower(m) \in {"exit", "quit"}
         /\ msg' = m
    /\ hostPc' = "exited"
    /\ UNCHANGED <<ctx, requests, state, agent, turns, view, pending, candidate,
                   verdicts, handlerLog, events, reason, result,
                   nested, judgeView, judgePending>>

\* lines 157-175: any other message resets issue_type and starts a streamed run
StartRequest ==
    /\ AtPrompt
    /\ requests < MaxRequests
    /\ \E m \in Messages :
         /\ Lower(m) \notin {"exit", "quit"}
         /\ msg' = m
    /\ ctx' = [ctx EXCEPT !.issue_type = None]
    /\ hostPc' = "running"
    /\ requests' = requests + 1
    /\ state' = "STARTED"
    /\ agent' = TRIAGE
    /\ turns' = 0
    /\ view' = {}
    /\ pending' = NoOutput
    /\ candidate' = NoCandidate
    /\ verdicts' = << >>
    /\ handlerLog' = << >>
    /\ events' = <<Event("request_started", msg')>>
    /\ reason' = None
    /\ result' = NoCandidate
    /\ nested' = 0
    /\ judgeView' = {}
    /\ judgePending' = NoOutput

\* ---------------------------------------------------------------- the run
\* the run fails: the exception is raised out of stream_events()
Fail(r) ==
    /\ state' = "FAILED"
    /\ reason' = r
    /\ pending' = NoOutput
    /\ events' = events \o <<Event("request_failed", r)>>

\* the triage agent is invoked with the enabled tools of the run
InvokeRouter ==
    /\ state = "STARTED"
    /\ state' = "CLASSIFYING"
    /\ view' = GatedView(ctx)
    /\ turns' = turns + 1
    /\ UNCHANGED <<hostPc, ctx, msg, requests, agent, pending, candidate, verdicts,
                   handlerLog, events, reason, result,
                   nested, judgeView, judgePending>>

\* the model behind the current agent returns
ModelReturns ==
    /\ state \in {"CLASSIFYING", "EXECUTING"}
    /\ pending = NoOutput
    /\ pending' \in ModelOutputs(agent)
    /\ UNCHANGED <<hostPc, ctx, msg, requests, state, agent, turns, view, candidate,
                   verdicts, handlerLog, events, reason, result,
                   nested, judgeView, judgePending>>

\* a handoff: every named target must be a handoff of the agent; the first is taken
RouterHandoff ==
    /\ state = "CLASSIFYING"
    /\ pending.kind = "handoff"
    /\ LET ts == pending.targets
       IN  IF \A i \in 1..Len(ts) : ts[i] \in HandoffTargets(agent)
           THEN /\ state' = "DELEGATING"
                /\ agent' = ts[1]
                /\ pending' = NoOutput
                /\ events' = events \o <<Event("classification_result", ts[1]),
                                         Event("handoff", ts[1])>>
                /\ UNCHANGED reason
           ELSE /\ Fail("ClassificationError")
                /\ UNCHANGED agent
    /\ UNCHANGED <<hostPc, ctx, msg, requests, turns, view, candidate, verdicts,
                   handlerLog, result,
                   nested, judgeView, judgePending>>

\* the agent handed off to is invoked with the enabled tools of the run
Dispatch ==
    /\ state = "DELEGATING"
    /\ state' = "EXECUTING"
    /\ view' = GatedView(ctx)
    /\ turns' = 1
    /\ UNCHANGED <<hostPc, ctx, msg, requests, agent, pending, candidate, verdicts,
                   handlerLog, events, reason, result,
                   nested, judgeView, judgePending>>

\* a tool call: the handler runs and the agent is invoked again, unless the run
\* has used up its turns; a tool that was not offered fails the run
ToolCall ==
    /\ state \in {"CLASSIFYING", "EXECUTING"}
    /\ pending.kind = "tool"
    /\ LET t == pending.tool
       IN  IF ToolAllowed(t, view)
           THEN /\ ctx' = ToolHandler(t, ctx)
                /\ handlerLog' = Append(handlerLog,
                                        [tool |-> t, enabled |-> is_enabled(t, ctx)])
                /\ pending' = NoOutput
                /\ IF turns < MaxTurns
                   THEN /\ events' = Append(events, Event("capability_invoked", t))
                        /\ view' = GatedView(ctx')
                        /\ turns' = turns + 1
                        /\ UNCHANGED <<state, reason>>
                   ELSE /\ state' = "FAILED"
                        /\ reason' = "MaxTurnsExceeded"
                        /\ events' = events \o
                              <<Event("capability_invoked", t),
                                Event("request_failed", "MaxTurnsExceeded")>>
                        /\ UNCHANGED <<view, turns>>
           ELSE /\ Fail("CapabilityViolation")
                /\ UNCHANGED <<ctx, handlerLog, view, turns>>
    /\ UNCHANGED <<hostPc, msg, requests, agent, candidate, verdicts, result,
                   nested, judgeView, judgePending>>

\* a final output of the agent's output type: the output guardrails are next
CandidateProduced ==
    /\ state \in {"CLASSIFYING", "EXECUTING"}
    /\ pending.kind = "final"
    /\ state' = "VALIDATING"
    /\ candidate' = [id |-> turns, by |-> agent, text |-> pending.text]
    /\ pending' = NoOutput
    /\ events' = Append(events, Event("candidate_produced", pending.text))
    /\ UNCHANGED <<hostPc, ctx, msg, requests, agent, turns, view, verdicts,
                   handlerLog, reason, result,
                   nested, judgeView, judgePending>>

\* an output that does not parse as the agent's output type
OutputRejected ==
    /\ state \in {"CLASSIFYING", "EXECUTING"}
    /\ pending.kind = "malformed"
    /\ Fail(IF state = "CLASSIFYING" THEN "ClassificationError" ELSE "OutputShapeError")
    /\ UNCHANGED <<hostPc, ctx, msg, requests, agent, turns, view, candidate,
                   verdicts, handlerLog, result,
                   nested, judgeView, judgePending>>

\* a transport or model error of the provider
ProviderFails ==
    /\ state \in {"CLASSIFYING", "EXECUTING"}
    /\ pending.kind = "error"
    /\ Fail("ProviderError")
    /\ UNCHANGED <<hostPc, ctx, msg, requests, agent, turns, view, candidate,
                   verdicts, handlerLog, result,
                   nested, judgeView, judgePending>>

\* what the judge's model can return: an ApologyCheckOutput (text holds has_apology),
\* an output that does not parse, an error, a tool call or a handoff
JudgeOutputs ==
    {[kind |-> "final", targets |-> << >>, tool |-> None, text |-> h] :
        h \in {"has_apology", "no_apology"}}
    \cup {[kind |-> k, targets |-> << >>, tool |-> None, text |-> None] :
            k \in {"malformed", "error"}}
    \cup {[kind |-> "tool", targets |-> << >>, tool |-> t, text |-> None] :
            t \in RunTools}
    \cup {[kind |-> "handoff", targets |-> <<a>>, tool |-> None, text |-> None] :
            a \in Agents}

\* lines 68-74: the next output guardrail of the agent that produced the candidate
\* starts its own run of the judge on the candidate text
GuardrailStarts ==
    /\ state = "VALIDATING"
    /\ nested = 0
    /\ Len(verdicts) < Len(OutputGuardrails(candidate.by))
    /\ nested' = 1
    /\ judgeView' = JudgeView(ctx)
    /\ judgePending' = NoOutput
    /\ UNCHANGED <<hostPc, ctx, msg, requests, state, agent, turns, view, pending,
                   candidate, verdicts, handlerLog, events, reason, result>>

\* the judge's model returns
JudgeReturns ==
    /\ state = "VALIDATING"
    /\ nested = 1
    /\ judgePending = NoOutput
    /\ judgePending' \in JudgeOutputs
    /\ UNCHANGED <<hostPc, ctx, msg, requests, state, agent, turns, view, pending,
                   candidate, verdicts, handlerLog, events, reason, result, nested,
                   judgeView>>

\* lines 70-78: the judge's run ends and the guardrail reports has_apology as its
\* tripwire; a judge output that is no ApologyCheckOutput ends the request
GuardrailRuns ==
    /\ state = "VALIDATING"
    /\ nested = 1
    /\ judgePending # NoOutput
    /\ judgePending' = NoOutput
    /\ LET o == judgePending
       IN  CASE o.kind = "final" /\ OutputGuardrails(GUARD) = << >> ->
                  LET h == (o.text = "has_apology")
                      v == [guardrail |->
                                OutputGuardrails(candidate.by)[Len(verdicts) + 1],
                            candidate |-> candidate,
                            has_apology |-> h,
                            tripwire_triggered |-> TripwireTriggered(h)]
                  IN  /\ verdicts' = Append(verdicts, v)
                      /\ pending' = NoOutput
                      /\ nested' = 0
                      /\ IF v.tripwire_triggered
                         THEN /\ state' = AfterTripwire
                              /\ reason' = "GuardrailFailure"
                              /\ events' = events \o
                                    <<Event("guardrail_result", "failed"),
                                      Event("request_failed", "GuardrailFailure")>>
                         ELSE /\ events' =
                                    Append(events, Event("guardrail_result", "passed"))
                              /\ UNCHANGED <<state, reason>>
                      /\ UNCHANGED <<agent, handlerLog>>
             [] o.kind = "final" /\ OutputGuardrails(GUARD) # << >> ->
                  \* the judge's output would be guarded by a run of its own
                  /\ nested' = 2
                  /\ UNCHANGED <<verdicts, pending, state, reason, events, agent,
                                 handlerLog>>
             [] o.kind = "tool" /\ o.tool \in judgeView ->
                  /\ handlerLog' = Append(handlerLog,
                                      [tool |-> o.tool, enabled |-> is_enabled(o.tool, ctx)])
                  /\ events' = Append(events, Event("capability_invoked", o.tool))
                  /\ UNCHANGED <<verdicts, pending, state, reason, agent, nested>>
             [] o.kind = "handoff" /\ o.targets[1] \in HandoffTargets(GUARD) ->
                  /\ agent' = o.targets[1]
                  /\ events' = Append(events, Event("handoff", o.targets[1]))
                  /\ UNCHANGED <<verdicts, pending, state, reason, handlerLog, nested>>
             [] OTHER ->
                  /\ Fail("ProviderError")
                  /\ nested' = 0
                  /\ UNCHANGED <<verdicts, agent, handlerLog>>
    /\ UNCHANGED <<hostPc, ctx, msg, requests, turns, view, candidate, result,
                   judgeView>>

\* no guardrail of the agent is left to run: the final output is the run's result
Release ==
    /\ state = "VALIDATING"
    /\ nested = 0
    /\ Len(verdicts) = Len(OutputGuardrails(candidate.by))
    /\ state' = "ACCEPTED"
    /\ result' = candidate
    /\ events' = Append(events, Event("request_accepted", candidate.text))
    /\ UNCHANGED <<hostPc, ctx, msg, requests, agent, turns, view, pending, candidate,
                   verdicts, handlerLog, reason,
                   nested, judgeView, judgePending>>

\* lines 177-178: the stream ends and the loop prompts again, or the exception
\* leaves main(), which catches nothing
Finish ==
    /\ StreamComplete(state)
    /\ hostPc = "running"
    /\ state' = "DONE"
    /\ hostPc' = IF state = "ACCEPTED" THEN "prompt" ELSE "crashed"
    /\ UNCHANGED <<ctx, msg, requests, agent, turns, view, pending, candidate,
                   verdicts, handlerLog, events, reason, result,
                   nested, judgeView, judgePending>>

Next ==
    \/ ReadExit
    \/ StartRequest
    \/ InvokeRouter
    \/ ModelReturns
    \/ RouterHandoff
    \/ Dispatch
    \/ ToolCall
    \/ CandidateProduced
    \/ OutputRejected
    \/ ProviderFails
    \/ GuardrailStarts
    \/ JudgeReturns
    \/ GuardrailRuns
    \/ Release
    \/ Finish

Spec == Init /\ [][Next]_vars

\* the steps of a run and of the loop that consumes its events: the event loop
\* keeps running them, and every call of a model returns
RunStep ==
    \/ InvokeRouter
    \/ ModelReturns
    \/ RouterHandoff
    \/ Dispatch
    \/ ToolCall
    \/ CandidateProduced
    \/ OutputRejected
    \/ ProviderFails
    \/ GuardrailStarts
    \/ JudgeReturns
    \/ GuardrailRuns
    \/ Release
    \/ Finish

FairSpec == Spec /\ WF_vars(RunStep)

TypeOK ==
    /\ hostPc \in {"prompt", "running", "exited", "crashed"}
    /\ ctx.issue_type \in {None, "billing", "technical", "general"}
    /\ ctx.is_premium_user \in BOOLEAN
    /\ requests \in 0..MaxRequests
    /\ state \in {"IDLE", "STARTED", "CLASSIFYING", "DELEGATING", "EXECUTING",
                  "VALIDATING", "ACCEPTED", "FAILED", "DONE"}
    /\ agent \in Agents \cup {None}
    /\ view \subseteq RunTools
    /\ nested \in 0..1
    /\ judgeView = {}

\* ================================================================= claims
CountEvents(es, k) == Cardinality({i \in DOMAIN es : es[i].kind = k})

HasEvent(k) == \E i \in DOMAIN events : events[i].kind = k

\* the transitions of the documented state machine, and the start of a request
DocumentedTransitions ==
    {<<"IDLE", "STARTED">>, <<"DONE", "STARTED">>,
     <<"STARTED", "CLASSIFYING">>,
     <<"CLASSIFYING", "DELEGATING">>, <<"CLASSIFYING", "FAILED">>,
     <<"DELEGATING", "EXECUTING">>,
     <<"EXECUTING", "VALIDATING">>, <<"EXECUTING", "FAILED">>,
     <<"VALIDATING", "ACCEPTED">>, <<"VALIDATING", "RETRYING">>,
     <<"VALIDATING", "FAILED">>, <<"RETRYING", "EXECUTING">>,
     <<"ACCEPTED", "DONE">>, <<"FAILED", "DONE">>}

\* C1: every change of the run's state is a transition of the documented state
\* machine (STARTED, CLASSIFYING, DELEGATING, EXECUTING, VALIDATING, ACCEPTED or
\* FAILED, DONE, with only the EXECUTING/VALIDATING retry loop going back), and a
\* request that reaches DONE has streamed exactly one terminal event.
C1_LinearPath ==
    [][/\ state' # state => <<state, state'>> \in DocumentedTransitions
       /\ state' = "DONE" =>
            CountEvents(events', "request_accepted")
              + CountEvents(events', "request_failed") = 1]_vars

\* C2: a released result is the candidate on which the no_apology_guardrail of the
\* agent that produced it ran and found no apology; no candidate is released with a
\* tripped or a missing verdict, whether a specialist or the triage agent wrote it.
C2_AcceptedOnlyValidated ==
    /\ state = "ACCEPTED" => result # NoCandidate
    /\ result # NoCandidate =>
         /\ state \in {"ACCEPTED", "DONE"}
         /\ result = candidate
         /\ \E i \in DOMAIN verdicts :
              /\ verdicts[i].guardrail = "no_apology_guardrail"
              /\ verdicts[i].candidate = result
         /\ \A i \in DOMAIN verdicts :
              /\ verdicts[i].candidate = result
              /\ ~verdicts[i].has_apology

C2_Witness ==
    /\ state = "ACCEPTED"
    /\ result.by = TRIAGE
    /\ Len(verdicts) = 1

C5_GatedViewExact ==
    state \in {"CLASSIFYING", "EXECUTING"} =>
        /\ view \subseteq RunTools
        /\ "refund" \in view <=> ctx.is_premium_user
        /\ "restart_service" \in view <=> ctx.issue_type = "technical"
        /\ "general_info" \in view

C5_Witness ==
    /\ state = "EXECUTING"
    /\ agent = BILLING
    /\ ~ctx.is_premium_user
    /\ "refund" \notin view
    /\ pending = NoOutput

C8_WrittenOnceByRouter ==
    /\ state \in {"STARTED", "CLASSIFYING"} => ctx.issue_type = None
    /\ (hostPc = "running" /\ HasEvent("handoff")) => ctx.issue_type # None

\* the category each specialist stands for
CategoryOf(a) ==
    CASE a = BILLING -> "billing"
      [] a = TECHNICAL -> "technical"
      [] a = GENERAL -> "general"
      [] OTHER -> None

\* C9 as stated: in DELEGATING and EXECUTING issue_type is the category of the agent
\* handed off to, so the Technical Agent is offered restart_service.
C9_CategoryMatchesHandoff ==
    state \in {"DELEGATING", "EXECUTING"} =>
        /\ ctx.issue_type # None
        /\ ctx.issue_type = CategoryOf(agent)
        /\ (state = "EXECUTING" /\ agent = TECHNICAL) => "restart_service" \in view

\* a triage output that is malformed, names no target, names more than one target
\* or names an agent that is no handoff of the triage agent
BadClassification(o) ==
    \/ o.kind \in {"malformed", "final"}
    \/ /\ o.kind = "handoff"
       /\ \/ Len(o.targets) # 1
          \/ \E i \in DOMAIN o.targets : o.targets[i] \notin HandoffTargets(TRIAGE)

\* C10 as stated: a bad classification takes the request from CLASSIFYING straight
\* to FAILED with a ClassificationError and one request_failed event; no agent is
\* handed off to and the triage agent is not invoked again.
C10_BadClassificationFails ==
    [][(state = "CLASSIFYING" /\ BadClassification(pending)) =>
          /\ state' = "FAILED"
          /\ reason' = "ClassificationError"
          /\ CountEvents(events', "request_failed") = 1
          /\ ~(\E i \in DOMAIN events' : events'[i].kind = "handoff")
          /\ turns' = turns]_vars

\* a condition the error taxonomy calls fatal is before the run: a bad
\* classification, a tool call outside the offered view, an output that does not
\* parse, a provider error, or a judge run that failed or found an apology
FatalCondition ==
    \/ state = "CLASSIFYING" /\ BadClassification(pending)
    \/ /\ state \in {"CLASSIFYING", "EXECUTING"}
       /\ \/ pending.kind \in {"malformed", "error"}
          \/ pending.kind = "tool" /\ pending.tool \notin view
    \/ /\ state = "VALIDATING"
       /\ judgePending # NoOutput
       /\ judgePending.text # "no_apology"

\* C11 as stated: every fatal condition takes the request to FAILED with a typed
\* reason that the last event, a request_failed, carries; a failed request has no
\* result, and a request is DONE only after a terminal event.
C11_FatalEndsFailed ==
    /\ [][FatalCondition =>
            /\ state' = "FAILED"
            /\ reason' # None
            /\ events'[Len(events')] = Event("request_failed", reason')]_vars
    /\ [](reason # None => result = NoCandidate)
    /\ [](state = "DONE" => events[Len(events)].kind
                                \in {"request_accepted", "request_failed"})

C15_OneRequestInFlight ==
    /\ [][requests' # requests => state \in {"IDLE", "DONE"}]_vars
    /\ [](state \notin {"IDLE", "DONE"} => hostPc = "running")

C15_Witness ==
    /\ requests = 2
    /\ state = "STARTED"
    /\ hostPc = "running"

\* C16 as stated: the triage agent is offered no tool while it classifies, and no
\* capability_invoked event comes before the handoff event.
C16_RouterHasNoTools ==
    /\ state = "CLASSIFYING" => view = {}
    /\ \A i \in DOMAIN events :
         events[i].kind = "capability_invoked" =>
             \E j \in 1..(i - 1) : events[j].kind = "handoff"

\* C17: a step in which a tool handler runs leaves name, is_premium_user and
\* issue_type of the context as they were.
C17_HandlersLeaveContext ==
    [][Len(handlerLog') > Len(handlerLog) =>
          /\ ctx'.name = ctx.name
          /\ ctx'.is_premium_user = ctx.is_premium_user
          /\ ctx'.issue_type = ctx.issue_type]_vars

C17_Witness ==
    /\ Len(handlerLog) = 2
    /\ handlerLog[1].tool = "refund"
    /\ handlerLog[2].tool = "general_info"

\* C18: a guardrail check is one run of the judge, never a run inside it; while it
\* is in progress the judge is offered no tool, and no step of it changes the
\* current agent, runs a tool handler or streams a handoff or capability event.
C18_GuardrailDepthOne ==
    /\ [](nested \in {0, 1})
    /\ [](nested = 1 => (state = "VALIDATING" /\ judgeView = {}))
    /\ [][nested = 1 =>
            /\ agent' = agent
            /\ handlerLog' = handlerLog
            /\ CountEvents(events', "handoff") = CountEvents(events, "handoff")
            /\ CountEvents(events', "capability_invoked")
                 = CountEvents(events, "capability_invoked")]_vars

C18_Witness ==
    /\ state = "VALIDATING"
    /\ nested = 0
    /\ Len(verdicts) = 1
    /\ agent = BILLING
    /\ candidate.by = BILLING

\* C19: each verdict's tripwire is the has_apology the judge returned, the streamed
\* guardrail result is "passed" exactly when has_apology is false, and a candidate
\* gets one verdict of its one guardrail, not more.
C19_VerdictIsNotHasApology ==
    /\ Len(verdicts) <= 1
    /\ CountEvents(events, "guardrail_result") = Len(verdicts)
    /\ \A i \in DOMAIN verdicts :
         /\ verdicts[i].tripwire_triggered = verdicts[i].has_apology
         /\ verdicts[i].candidate = candidate
         /\ \E j \in DOMAIN events :
              events[j] = Event("guardrail_result",
                                IF verdicts[i].has_apology THEN "failed" ELSE "passed")
         /\ verdicts[i].has_apology => state \in {"FAILED", "DONE"} /\ result = NoCandidate
    /\ state = "ACCEPTED" => Len(verdicts) = 1

C19_Witness ==
    /\ state = "FAILED"
    /\ Len(verdicts) = 1
    /\ verdicts[1].has_apology
    /\ candidate.text = "plain"

\* the messages that end the session, whatever their case
ExitMessages == {"exit", "QUIT"}

\* C20: no step changes name or is_premium_user; a step that starts a request
\* leaves issue_type unset; reading an exit or quit message ends the session and
\* starts no request and changes nothing of the context or of the last run.
C20_HostFrame ==
    [][/\ ctx'.name = ctx.name
       /\ ctx'.is_premium_user = ctx.is_premium_user
       /\ requests' # requests => (ctx'.issue_type = None /\ msg' \notin ExitMessages)
       /\ (hostPc = "prompt" /\ hostPc' # "prompt" /\ msg' \in ExitMessages) =>
            /\ hostPc' = "exited"
            /\ requests' = requests
            /\ ctx' = ctx
            /\ state' = state
            /\ events' = events
       /\ hostPc = "exited" => hostPc' = "exited"]_vars

C20_Witness ==
    /\ hostPc = "exited"
    /\ msg = "QUIT"
    /\ requests = 1
    /\ ctx.issue_type = None

====
